---- MODULE Spec2Model ----
(***************************************************************************)
(* The capture / detect / announce loop of blind_assist_ver1.py.           *)
(*                                                                         *)
(* Texts are sequences of one-character strings, except that a JSON string *)
(* literal, a JSON number and the fixed words of an announcement are each  *)
(* one element of the sequence (the code never looks inside them).         *)
(* Time is counted in ticks of a quarter second, the length of one         *)
(* time.sleep(0.25) slice of the loop.                                     *)
(***************************************************************************)
EXTENDS Integers, Sequences, FiniteSets, TLC

\* ------------------------------------------------------------------ bounds
\* Iterations of `while True` the model follows.
MaxCycles == 2
\* Longest time, in ticks, the model lets one capture take: a capture takes
\* no time at all, or this long.
MaxWorkTicks == 2

\* --------------------------------------------------------- configuration
\* INTERVAL = 5, seconds between captures.
INTERVAL == 5
\* Ticks in one second: the loop sleeps and counts in steps of 0.25.
TicksPerSecond == 4
\* The epoch second at which the run starts (time.time() of the first tick).
StartEpoch == 1000
A2DP_PROFILE == "a2dp-sink"

\* Python's None, for the variables that hold texts or records.
None == <<"None">>

\* ------------------------------------------------------ str methods used
WS == {" ", "\n"}

RECURSIVE LStrip(_, _)
\* str.lstrip(chars): drop the leading elements that are in cs.
LStrip(s, cs) ==
    IF s = <<>> \/ Head(s) \notin cs THEN s ELSE LStrip(Tail(s), cs)

RECURSIVE RStrip(_, _)
\* str.rstrip(chars): drop the trailing elements that are in cs.
RStrip(s, cs) ==
    IF s = <<>> \/ s[Len(s)] \notin cs THEN s
    ELSE RStrip(SubSeq(s, 1, Len(s) - 1), cs)

\* str.strip(chars); str.strip() is PyStrip(s, WS).
PyStrip(s, cs) == RStrip(LStrip(s, cs), cs)

\* str.startswith(prefix)
StartsWith(s, p) == Len(s) >= Len(p) /\ SubSeq(s, 1, Len(p)) = p

LowerChar(c) ==
    CASE c = "J" -> "j" [] c = "S" -> "s" [] c = "O" -> "o" [] c = "N" -> "n"
      [] OTHER -> c

\* str.lower()
Lower(s) == [i \in 1..Len(s) |-> LowerChar(s[i])]

\* The backquote character is written "BQ".
BQ == "BQ"
Fence == <<BQ, BQ, BQ>>
JsonTag == <<"j", "s", "o", "n">>

\* Mutant of StripDecoration: the fence is removed at the front only.
StripDecorationLeadingOnly(text) ==
    LET r0 == PyStrip(text, WS)
        r1 == IF StartsWith(r0, Fence) THEN PyStrip(LStrip(r0, {BQ}), WS) ELSE r0
    IN  IF StartsWith(Lower(r1), JsonTag)
        THEN PyStrip(SubSeq(r1, Len(JsonTag) + 1, Len(r1)), WS)
        ELSE r1

\* Lines 106-110: raw = response.text.strip(); the fence and the tag go.
StripDecoration(text) ==
    LET r0 == PyStrip(text, WS)
        r1 == IF StartsWith(r0, Fence) THEN PyStrip(PyStrip(r0, {BQ}), WS) ELSE r0
    IN  IF StartsWith(Lower(r1), JsonTag)
        THEN PyStrip(SubSeq(r1, Len(JsonTag) + 1, Len(r1)), WS)
        ELSE r1

\* ------------------------------------------------------------ json.loads
\* The JSON texts of the model: a scalar, or an object whose member values
\* are scalars.  A string literal and a number are one element each.
StrLits == {"\"currency\"", "\"denomination\"", "\"confidence\"",
            "\"USD\"", "\"high\"", "\"sure\""}
NumLits == {"20"}
Scalars == StrLits \cup NumLits \cup {"null"}

\* The Python value of a scalar, as str() prints it.
PyStr(tok) ==
    CASE tok = "\"currency\"" -> "currency"
      [] tok = "\"denomination\"" -> "denomination"
      [] tok = "\"confidence\"" -> "confidence"
      [] tok = "\"USD\"" -> "USD"
      [] tok = "\"high\"" -> "high"
      [] tok = "\"sure\"" -> "sure"
      [] tok = "null" -> "None"
      [] OTHER -> tok

IsWS(c) == c \in WS
NotWS(c) == c \notin WS

\* The tokens of a text: whitespace between tokens means nothing to JSON.
Tokens(s) == SelectSeq(s, NotWS)

\* The positions of the members of an object of n tokens: { k : v , k : v }.
MemberStarts(n) == {i \in 2..(n - 1) : (i - 2) % 4 = 0}

IsObjectText(t) ==
    LET n == Len(t) IN
    /\ n >= 2 /\ t[1] = "{" /\ t[n] = "}"
    /\ \/ n = 2
       \/ /\ (n - 2) % 4 = 3
          /\ \A i \in MemberStarts(n) :
                /\ t[i] \in StrLits /\ t[i + 1] = ":" /\ t[i + 2] \in Scalars
                /\ (i + 3 < n => t[i + 3] = ",")

\* dict built by json.loads: a later member replaces an earlier one of the
\* same key.
ObjectOf(t) ==
    LET n == Len(t)
        keys == {PyStr(t[i]) : i \in MemberStarts(n)}
        last(k) == CHOOSE i \in MemberStarts(n) :
                      /\ PyStr(t[i]) = k
                      /\ \A j \in MemberStarts(n) : PyStr(t[j]) = k => j <= i
    IN  [k \in keys |-> PyStr(t[last(k) + 2])]

\* json.loads(raw): kind "dict" with its members, kind "scalar", or kind
\* "error" when json.loads raises (JSONDecodeError).
JsonLoads(raw) ==
    LET t == Tokens(raw) IN
    IF Len(t) = 1 /\ t[1] \in Scalars
      THEN [kind |-> "scalar", d |-> <<>>, v |-> PyStr(t[1])]
    ELSE IF IsObjectText(t)
      THEN [kind |-> "dict", d |-> ObjectOf(t), v |-> ""]
    ELSE [kind |-> "error", d |-> <<>>, v |-> ""]

\* ------------------------------------------------- call_gemini_for_image
NoDetection == [kind |-> "none", d |-> <<>>, v |-> ""]

\* Mutant of CallGemini: a reply that is not JSON is handed on as it is.
CallGeminiKeepsJunk(client, reply) ==
    IF ~client THEN NoDetection
    ELSE IF reply.raises THEN NoDetection
    ELSE LET r == JsonLoads(StripDecoration(reply.text)) IN
         IF r.kind = "error" THEN [kind |-> "dict", d |-> <<>>, v |-> ""] ELSE r

\* call_gemini_for_image(im): None without a client, None when anything in
\* the try block raises (the upload, response.text, json.loads), else the
\* value json.loads returns.
CallGemini(client, reply) ==
    IF ~client THEN NoDetection
    ELSE IF reply.raises THEN NoDetection
    ELSE LET r == JsonLoads(StripDecoration(reply.text)) IN
         IF r.kind = "error" THEN NoDetection ELSE r

\* dict.get(key, default)
Get(d, k, default) == IF k \in DOMAIN d THEN d[k] ELSE default

Unavailable == <<"Detection unavailable.">>

\* Mutant of AnnouncementText: a result is spoken only when all keys are there.
AnnouncementTextStrict(det) ==
    IF det.kind = "dict" /\ DOMAIN det.d = {"currency", "denomination", "confidence"}
    THEN <<"Detected", det.d["denomination"], det.d["currency"], "with",
           det.d["confidence"], "confidence.">>
    ELSE Unavailable

\* Lines 216-222: the text of the cycle's announcement.
AnnouncementText(det) ==
    IF det.kind = "dict"
    THEN <<"Detected", Get(det.d, "denomination", "unknown"),
           Get(det.d, "currency", "unknown"), "with",
           Get(det.d, "confidence", "low"), "confidence.">>
    ELSE Unavailable

\* The replies of the detection backend the model tries.
FullBody == <<"{", "\"currency\"", ":", "\"USD\"", ",", "\"denomination\"", ":",
              "20", ",", "\"confidence\"", ":", "\"high\"", "}">>
PartialBody == <<"{", "\"currency\"", ":", "\"USD\"", "}">>
OddBody == <<"{", "\"confidence\"", ":", "\"sure\"", ",", "\"confidence\"", ":",
             "null", "}">>
EmptyBody == <<"{", "}">>
ObjectBodies == {FullBody, PartialBody, OddBody, EmptyBody}
ScalarBody == <<"20">>
CutBody == <<"{", "\"currency\"", ":", "\"USD\"", ",">>
ProseBody == <<"n", "o">>
Bodies == ObjectBodies \cup {ScalarBody, CutBody, ProseBody, <<>>}

Decorations == {"plain", "fence", "fence_tight", "fence_json", "fence_JSON", "tag",
                "padded"}
FenceDecorations == {"fence", "fence_tight", "fence_json", "fence_JSON", "tag"}

Decorate(body, deco) ==
    CASE deco = "plain" -> body
      [] deco = "fence" -> Fence \o <<"\n">> \o body \o <<"\n">> \o Fence
      [] deco = "fence_tight" -> Fence \o body \o Fence
      [] deco = "fence_json" ->
            Fence \o JsonTag \o <<"\n">> \o body \o <<"\n">> \o Fence
      [] deco = "fence_JSON" ->
            Fence \o <<"J", "S", "O", "N">> \o <<"\n">> \o body \o <<"\n">> \o Fence \o <<"\n">>
      [] deco = "tag" -> JsonTag \o <<" ">> \o body
      [] deco = "padded" -> <<"\n", " ">> \o body \o <<" ", "\n">>

Reply(raises, body, deco) ==
    [raises |-> raises, body |-> body, deco |-> deco, text |-> Decorate(body, deco)]

Replies == {Reply(TRUE, <<>>, "plain")}
              \cup {Reply(FALSE, b, dc) : b \in ObjectBodies, dc \in Decorations}
              \cup {Reply(FALSE, b, dc) : b \in Bodies, dc \in {"plain", "fence_json"}}
NoReply == [raises |-> TRUE, body |-> <<>>, deco |-> "none", text |-> <<>>]

\* --------------------------------------------------------------- naming
DigitChars == <<"0", "1", "2", "3", "4", "5", "6", "7", "8", "9">>

RECURSIVE Digits(_)
\* str(n) for n >= 0
Digits(n) == IF n < 10 THEN <<DigitChars[n + 1]>>
             ELSE Digits(n \div 10) \o <<DigitChars[(n % 10) + 1]>>

CAPTURE_DIR == "/home/pi/captures"

\* os.path.join(CAPTURE_DIR, f"capture_{ts}.jpg")
FileName(ts) == <<CAPTURE_DIR, "/", "capture_">> \o Digits(ts) \o <<".jpg">>

\* int(time.time()) at tick `clock`
EpochSeconds(clock) == clock \div TicksPerSecond

\* --------------------------------------------------------- capture_image
\* What one run of the camera backend can do: whether a camera program is
\* installed (shutil.which), whether os.remove of the old scratch file
\* raises, how subprocess.run ends ("exit", "timeout" for TimeoutExpired,
\* "oserror" when the program cannot be started), the exit status, whether
\* the process wrote the scratch file, its error stream, and whether
\* Image.open can read the file.
CaptureOutcomes ==
    {o \in [installed : BOOLEAN, rmFails : BOOLEAN,
            proc : {"exit", "timeout", "oserror"}, rc : {0, 1},
            wrote : BOOLEAN, stderr : {<<>>, <<"E", "\n">>}, decodes : BOOLEAN] :
        /\ (~o.installed => ~o.rmFails /\ o.proc = "exit" /\ o.rc = 0 /\ ~o.wrote
                              /\ o.stderr = <<>> /\ o.decodes)
        /\ (o.proc # "exit" => o.rc = 0 /\ o.stderr = <<>> /\ o.decodes)
        /\ (o.proc = "oserror" => ~o.wrote)
        /\ (o.rc # 0 => o.decodes)
        /\ (~o.wrote => o.decodes)
        /\ (o.rmFails => o.proc = "exit" /\ o.rc = 0 /\ o.wrote /\ o.stderr = <<>>
                            /\ o.decodes)}

Shot(im, tag, diag, scratch, spawned) ==
    [im |-> im, tag |-> tag, diag |-> diag, scratch |-> scratch, spawned |-> spawned]

\* Mutant of CaptureImage: the scratch file is looked for before the exit
\* status.
CaptureImageFileFirst(o, old, n) ==
    IF ~o.installed THEN Shot(None, "no_camera", None, old, FALSE)
    ELSE IF old # <<>> /\ o.rmFails THEN Shot(None, "exception", None, old, FALSE)
    ELSE LET file == IF o.wrote THEN Digits(n) ELSE <<>>
             err == PyStrip(o.stderr, WS)
         IN  CASE o.proc = "timeout" -> Shot(None, "timeout", None, file, TRUE)
               [] o.proc = "oserror" -> Shot(None, "exception", None, file, FALSE)
               [] OTHER ->
                    IF file = <<>> THEN Shot(None, "file_missing", err, file, TRUE)
                    ELSE IF o.rc # 0 THEN Shot(None, "camera_failed", err, file, TRUE)
                    ELSE IF ~o.decodes THEN Shot(None, "exception", None, file, TRUE)
                    ELSE Shot(file, "None", err, file, TRUE)

\* Mutant of CaptureImage: the old scratch file is left where it is.
CaptureImageKeepsOld(o, old, n) ==
    IF ~o.installed THEN Shot(None, "no_camera", None, old, FALSE)
    ELSE LET file == IF o.wrote THEN Digits(n) ELSE old
             err == PyStrip(o.stderr, WS)
         IN  CASE o.proc = "timeout" -> Shot(None, "timeout", None, file, TRUE)
               [] o.proc = "oserror" -> Shot(None, "exception", None, file, FALSE)
               [] OTHER ->
                    IF o.rc # 0 THEN Shot(None, "camera_failed", err, file, TRUE)
                    ELSE IF file = <<>> THEN Shot(None, "file_missing", err, file, TRUE)
                    ELSE IF ~o.decodes THEN Shot(None, "exception", None, file, TRUE)
                    ELSE Shot(file, "None", err, file, TRUE)

\* capture_image(), the n-th call, with the scratch file `old` on disk:
\* the triple it returns, the scratch file it leaves, whether it ran a
\* process.  A file, and the image read from it, is the number of the call
\* whose process wrote it, in digits.
CaptureImage(o, old, n) ==
    IF ~o.installed THEN Shot(None, "no_camera", None, old, FALSE)
    ELSE IF old # <<>> /\ o.rmFails THEN Shot(None, "exception", None, old, FALSE)
    ELSE LET file == IF o.wrote THEN Digits(n) ELSE <<>>
             err == PyStrip(o.stderr, WS)
         IN  CASE o.proc = "timeout" -> Shot(None, "timeout", None, file, TRUE)
               [] o.proc = "oserror" -> Shot(None, "exception", None, file, FALSE)
               [] OTHER ->
                    IF o.rc # 0 THEN Shot(None, "camera_failed", err, file, TRUE)
                    ELSE IF file = <<>> THEN Shot(None, "file_missing", err, file, TRUE)
                    ELSE IF ~o.decodes THEN Shot(None, "exception", None, file, TRUE)
                    ELSE Shot(file, "None", err, file, TRUE)

\* ------------------------------------------------------- audio routing
\* A name is a sequence of pieces; a line of pactl's short listings is the
\* sequence of its fields (line.split()).
BT_CARD_PREFIX == "bluez_card"
BtCardA == <<BT_CARD_PREFIX, ".A">>
AlsaCard == <<"alsa_card", ".0">>
AlsaSink == <<"alsa_output", ".0">>
BtSinkA1 == <<"sink.", BT_CARD_PREFIX, ".A", ".a2dp">>
BtSinkA2 == <<"mono.", BT_CARD_PREFIX, ".A">>
BtSinkB == <<"sink.", BT_CARD_PREFIX, ".B", ".a2dp">>
Line(index, name) == <<<<index>>, name, <<"module">>>>

\* The None that run_cmd returns, among the listings.
NoOutput == <<<<None>>>>

\* Outputs of `pactl list short cards`; NoOutput when run_cmd returns None.
CardListings == {NoOutput, <<>>, <<Line("0", AlsaCard)>>,
                 <<Line("0", AlsaCard), Line("1", BtCardA)>>}

\* find_bt_card(): the second field of the first line that has one starting
\* with "bluez_card".
FindBtCard(out) ==
    LET lines == IF out = NoOutput THEN <<>> ELSE out
        hits == {i \in 1..Len(lines) :
                    Len(lines[i]) >= 2 /\ Head(lines[i][2]) = BT_CARD_PREFIX}
    IN  IF hits = {} THEN None
        ELSE lines[CHOOSE i \in hits : \A j \in hits : i <= j][2]

\* `card in l` for a name without blanks: it lies inside one field.
Inside(card, field) ==
    \E i \in 1..(Len(field) - Len(card) + 1) :
        SubSeq(field, i, i + Len(card) - 1) = card
Mentions(line, card) == \E f \in 1..Len(line) : Inside(card, line[f])

\* The audio server as one call of set_card_profile meets it: whether pactl
\* can be started, the exit status of set-card-profile, and the output of
\* `pactl list short sinks` (NoOutput when run_cmd returns None).
SinkListings == {NoOutput, <<Line("0", AlsaSink)>>,
                 <<Line("0", AlsaSink), Line("1", BtSinkA1), Line("2", BtSinkA2)>>,
                 <<Line("2", BtSinkA2), Line("1", BtSinkA1)>>,
                 <<Line("0", AlsaSink), Line("3", BtSinkB)>>}
Servers ==
    {v \in [spawn : BOOLEAN, rc : {0, 1}, sinks : SinkListings] :
        /\ (~v.spawn => v.rc = 0 /\ v.sinks = NoOutput)
        /\ (v.rc # 0 => v.sinks = NoOutput)}
NoServer == [spawn |-> FALSE, rc |-> 0, sinks |-> NoOutput]

Routed(ok, default) == [ok |-> ok, default |-> default]

\* Mutant of SetCardProfile: the last matching sink is taken.
SetCardProfileLastSink(card, profile, srv, default) ==
    IF ~srv.spawn \/ srv.rc # 0 THEN Routed(FALSE, default)
    ELSE LET lines == IF srv.sinks = NoOutput THEN <<>> ELSE srv.sinks
             hits == {i \in 1..Len(lines) : Mentions(lines[i], card)}
         IN  IF hits = {} THEN Routed(TRUE, default)
             ELSE LET l == lines[CHOOSE i \in hits : \A j \in hits : i >= j]
                  IN  IF Len(l) < 2 THEN Routed(FALSE, default)
                      ELSE Routed(TRUE, l[2])

\* Mutant of SetCardProfile: a sink that is the default already is passed over.
SetCardProfileSkipsDefault(card, profile, srv, default) ==
    IF ~srv.spawn \/ srv.rc # 0 THEN Routed(FALSE, default)
    ELSE LET lines == IF srv.sinks = NoOutput THEN <<>> ELSE srv.sinks
             hits == {i \in 1..Len(lines) :
                         Mentions(lines[i], card) /\ lines[i][2] # default}
         IN  IF hits = {} THEN Routed(TRUE, default)
             ELSE LET l == lines[CHOOSE i \in hits : \A j \in hits : i <= j]
                  IN  IF Len(l) < 2 THEN Routed(FALSE, default)
                      ELSE Routed(TRUE, l[2])

\* set_card_profile(card, profile) with the default sink `default`: the
\* value it returns and the default sink it leaves.  subprocess.run raising
\* and l.split()[1] raising are caught, and False is returned.
SetCardProfile(card, profile, srv, default) ==
    IF ~srv.spawn \/ srv.rc # 0 THEN Routed(FALSE, default)
    ELSE LET lines == IF srv.sinks = NoOutput THEN <<>> ELSE srv.sinks
             hits == {i \in 1..Len(lines) : Mentions(lines[i], card)}
         IN  IF hits = {} THEN Routed(TRUE, default)
             ELSE LET l == lines[CHOOSE i \in hits : \A j \in hits : i <= j]
                  IN  IF Len(l) < 2 THEN Routed(FALSE, default)
                      ELSE Routed(TRUE, l[2])

\* ------------------------------------------------------------------ state
VARIABLES
    pc,             \* where main_loop is
    count,          \* count, the number of the iteration
    slept,          \* slept, in ticks
    clock,          \* time.time(), in ticks
    gemini_client,  \* whether genai.configure succeeded (line 26 or 29)
    tts_engine,     \* whether pyttsx3.init succeeded (line 65)
    bt_card,        \* bt_card
    defaultSink,    \* the audio server's default sink
    scratch,        \* the file at TEMP_IMAGE_FILE; <<>> when there is none
    im, err, stderr,\* the locals of one iteration ...
    ts, fname,
    det, text,      \* ... None outside the statements that use them
    threads,        \* speech threads that run tts_engine.runAndWait: "none",
                    \* "one", or "many" for two and more
    shot,           \* what the camera backend did, kept until the next
                    \* statement
    reply,          \* what the detection backend answered, kept until the
                    \* next statement
    route,          \* the call of set_card_profile of this iteration, kept
                    \* until the next statement
    reasserted,     \* the calls of set_card_profile of the finally block
    said,           \* the speak calls of this iteration: <<text, block>>; the
                    \* texts are kept until the sleep's first slice
    farewell,       \* the speak calls of the KeyboardInterrupt handler
    frames,         \* the files written by im.save: <<ts, name>>, in order
    clobbered,      \* whether im.save has written over a file of this run
    stamps,         \* ts of the iterations so far, in order
    intrAt,         \* where main_loop was at the first interrupt; "no" before
    interrupts,     \* the interrupts so far
    steps,          \* the calls of this iteration so far, in order
    t0              \* the clock when this iteration began (count += 1)

vars == <<pc, count, slept, clock, gemini_client, tts_engine, bt_card, defaultSink,
          scratch, im, err, stderr, ts, fname, det, text, threads, shot, reply,
          route, reasserted, said, farewell, frames, clobbered, stamps, intrAt,
          interrupts, steps, t0>>

env == <<gemini_client, tts_engine>>
shutdown == <<farewell, reasserted>>
saved == <<frames, clobbered, stamps>>
intr == <<intrAt, interrupts>>
locals == <<im, err, stderr, ts, fname, det, text>>
cycle == <<steps, t0>>

NoShot == [installed |-> FALSE, rmFails |-> FALSE, proc |-> "none", rc |-> 0,
           wrote |-> FALSE, stderr |-> <<>>, decodes |-> FALSE, before |-> <<>>,
           spawned |-> FALSE]
NoRoute == [calls |-> 0, srv |-> NoServer, before |-> <<>>, ok |-> FALSE]

Init ==
    /\ pc = "ensure_dir"
    /\ count = 0
    /\ slept = 0
    /\ clock = StartEpoch * TicksPerSecond
    /\ gemini_client \in BOOLEAN
    /\ tts_engine \in BOOLEAN
    /\ bt_card = None
    /\ defaultSink = AlsaSink
    /\ scratch \in {<<>>, Digits(0)}
    /\ im = None /\ err = "None" /\ stderr = None
    /\ ts = 0 /\ fname = None
    /\ det = NoDetection /\ text = None
    /\ threads = "none"
    /\ shot = NoShot
    /\ reply = NoReply
    /\ route = NoRoute
    /\ reasserted = 0
    /\ said = <<>>
    /\ farewell = 0
    /\ frames = <<>>
    /\ clobbered = FALSE
    /\ stamps = <<>>
    /\ intrAt = "no"
    /\ interrupts = 0
    /\ steps = <<>>
    /\ t0 = 0

\* ------------------------------------------------------------------ speak
\* speak(text, block): the speech threads after the call.  Without an
\* engine nothing happens; a blocking call has returned when speak returns;
\* a call that is not blocking leaves a thread behind, unless say() raises.
Speak(block, engineRaises, running) ==
    IF ~tts_engine \/ engineRaises \/ block THEN running
    ELSE IF running = "none" THEN "one" ELSE "many"

\* A speech thread comes to the end of runAndWait.
ThreadEnds ==
    /\ pc \notin {"exited", "killed"}
    /\ threads # "none"
    /\ threads' \in (IF threads = "one" THEN {"none"} ELSE {"one", "many"})
    /\ UNCHANGED <<pc, count, slept, clock, env, bt_card, defaultSink, scratch,
                   locals, shot, reply, route, said, shutdown, saved,
                   intr, cycle>>

\* ------------------------------------------------------------- main_loop
\* Line 194: ensure_dir(); os.makedirs raising ends the process, as the call
\* is outside the try.
EnsureDir ==
    /\ pc = "ensure_dir"
    /\ \E ok \in BOOLEAN : pc' = IF ok THEN "find_bt" ELSE "killed"
    /\ UNCHANGED <<count, slept, clock, env, bt_card, defaultSink, scratch, locals,
                   threads, shot, reply, route, said, shutdown, saved,
                   intr, cycle>>

\* Line 195
FindBt ==
    /\ pc = "find_bt"
    /\ \E out \in CardListings : bt_card' = FindBtCard(out)
    /\ pc' = "ready"
    /\ UNCHANGED <<count, slept, clock, env, defaultSink, scratch, locals, threads,
                   shot, reply, route, said, shutdown, saved, intr, cycle>>

\* Line 197: speak("System ready. Starting live capture.", block=False)
Ready ==
    /\ pc = "ready"
    /\ \E raises \in BOOLEAN : threads' = Speak(FALSE, raises, threads)
    /\ pc' = "capture"
    /\ UNCHANGED <<count, slept, clock, env, bt_card, defaultSink, scratch, locals,
                   shot, reply, route, said, shutdown, saved, intr, cycle>>

\* Lines 202-206: count += 1; capture_image(); ts; fname
Capture ==
    /\ pc = "capture"
    /\ count < MaxCycles
    /\ count' = count + 1
    /\ \E o \in CaptureOutcomes, d \in {0, MaxWorkTicks} :
          LET r == CaptureImage(o, scratch, count + 1) IN
          /\ im' = r.im /\ err' = r.tag /\ stderr' = r.diag
          /\ scratch' = r.scratch
          /\ shot' = [installed |-> o.installed, rmFails |-> o.rmFails,
                      proc |-> o.proc, rc |-> o.rc, wrote |-> o.wrote,
                      stderr |-> o.stderr, decodes |-> o.decodes,
                      before |-> scratch, spawned |-> r.spawned]
          /\ clock' = clock + d
          /\ ts' = EpochSeconds(clock + d)
          /\ fname' = FileName(EpochSeconds(clock + d))
          /\ stamps' = Append(stamps, EpochSeconds(clock + d))
    /\ said' = <<>>
    /\ steps' = <<"capture">>
    /\ t0' = clock
    /\ pc' = "captured"
    /\ UNCHANGED <<slept, env, bt_card, defaultSink, det, text, threads, reply, route,
                   shutdown, frames, clobbered, intr>>

\* Mutant of AfterSlice: the sleep is never entered.
AfterSliceNoSleep(n) == "capture"

\* Mutant of AfterSlice: the sleep ends one slice early.
AfterSliceOneShort(n) ==
    IF n + 1 < INTERVAL * TicksPerSecond THEN "sleep" ELSE "capture"

\* Where the loop is after `slept` ticks of the sleep (line 230).
AfterSlice(n) == IF n < INTERVAL * TicksPerSecond THEN "sleep" ELSE "capture"

\* Mutant of CaptureOK: every capture is taken for a success.
CaptureAlwaysOK(i) == TRUE

\* Line 208, "if im is None", negated: the capture gave an image.
CaptureOK(i) == i # None

\* Mutant of CycleBlock: the announcements of an iteration wait for the speech.
CycleBlockWaits == TRUE

\* block=False of the speak calls of an iteration (lines 210 and 227).
CycleBlock == FALSE

\* Lines 208-210 and 229: the capture failed
CaptureFailed ==
    /\ pc = "captured"
    /\ ~CaptureOK(im)
    /\ \E raises \in BOOLEAN : threads' = Speak(CycleBlock, raises, threads)
    /\ said' = Append(said, <<<<"Capture failed:", err>>, CycleBlock>>)
    /\ steps' = Append(steps, "announce")
    /\ slept' = 0
    /\ pc' = AfterSlice(0)
    /\ im' = None /\ err' = "None" /\ stderr' = None /\ ts' = 0 /\ fname' = None
    /\ shot' = NoShot
    /\ UNCHANGED <<count, clock, env, bt_card, defaultSink, scratch, det, text,
                   reply, route, shutdown, saved, intr, t0>>

\* Lines 211-213: im.save(fname); when it raises, the exception leaves the
\* while loop for the handler of line 237.
Persist ==
    /\ pc = "captured"
    /\ CaptureOK(im)
    /\ \E ok \in BOOLEAN :
          IF ok
          THEN /\ frames' = Append(frames, <<ts, fname>>)
               /\ clobbered' = (clobbered \/ \E i \in 1..Len(frames) : frames[i][2] = fname)
               /\ pc' = "detect"
          ELSE /\ pc' = "failed"
               /\ UNCHANGED <<frames, clobbered>>
    /\ shot' = NoShot
    /\ steps' = Append(steps, "persist")
    /\ UNCHANGED <<count, slept, clock, env, bt_card, defaultSink, scratch, locals,
                   threads, reply, route, said, shutdown, stamps, intr, t0>>

\* Lines 215-222: det = call_gemini_for_image(im); text
Detect ==
    /\ pc = "detect"
    /\ \E r \in Replies :
          /\ (~gemini_client => r = Reply(TRUE, <<>>, "plain"))
          /\ reply' = r
          /\ det' = CallGemini(gemini_client, r)
          /\ text' = AnnouncementText(CallGemini(gemini_client, r))
    /\ pc' = "route"
    /\ steps' = Append(steps, "detect")
    /\ UNCHANGED <<count, slept, clock, env, bt_card, defaultSink, scratch, im, err, stderr,
                   ts, fname, threads, shot, route, said, shutdown, saved, intr, t0>>

\* Mutant of HasCard: no card is ever taken to be there.
HasCardNever(card) == FALSE

\* "if bt_card:" (lines 225 and 240): find_bt_card gave a card.
HasCard(card) == card # None

\* Lines 225-226: if bt_card: set_card_profile(bt_card, A2DP_PROFILE)
Route ==
    /\ pc = "route"
    /\ IF HasCard(bt_card)
       THEN \E srv \in Servers :
               LET r == SetCardProfile(bt_card, A2DP_PROFILE, srv, defaultSink) IN
               /\ defaultSink' = r.default
               /\ route' = [calls |-> 1, srv |-> srv, before |-> defaultSink,
                            ok |-> r.ok]
               /\ steps' = Append(steps, "route")
       ELSE UNCHANGED <<defaultSink, route, steps>>
    /\ reply' = NoReply
    /\ pc' = "announce"
    /\ UNCHANGED <<count, slept, clock, env, bt_card, scratch, locals, threads,
                   shot, said, shutdown, saved, intr, t0>>

\* Lines 227 and 229: speak(text, block=False); slept = 0.0
Announce ==
    /\ pc = "announce"
    /\ \E raises \in BOOLEAN : threads' = Speak(CycleBlock, raises, threads)
    /\ said' = Append(said, <<text, CycleBlock>>)
    /\ steps' = Append(steps, "announce")
    /\ slept' = 0
    /\ pc' = AfterSlice(0)
    /\ im' = None /\ err' = "None" /\ stderr' = None /\ ts' = 0 /\ fname' = None
    /\ det' = NoDetection /\ text' = None
    /\ route' = NoRoute
    /\ UNCHANGED <<count, clock, env, bt_card, defaultSink, scratch, shot, reply,
                   shutdown, saved, intr, t0>>

\* The text of a speak call that the model no longer keeps.
Forgotten == <<"...">>

\* Lines 230-232: one slice, time.sleep(0.25); slept += 0.25
SleepSlice ==
    /\ pc = "sleep"
    /\ slept' = slept + 1
    /\ clock' = clock + 1
    /\ pc' = AfterSlice(slept + 1)
    /\ said' = [i \in 1..Len(said) |-> <<Forgotten, said[i][2]>>]
    /\ steps' = IF steps[Len(steps)] = "sleep" THEN steps ELSE Append(steps, "sleep")
    /\ UNCHANGED <<count, env, bt_card, defaultSink, scratch, locals, threads, shot,
                   reply, route, shutdown, saved, intr, t0>>

\* Mutant of InTry: the sleep is outside the try.
InTryWorkOnly == {"capture", "captured", "detect", "route", "announce"}

\* Where main_loop is inside the try statement (lines 201-232).
InTry == {"capture", "captured", "detect", "route", "announce", "sleep"}
\* Where main_loop is while the process lives.
Running == {"ensure_dir", "find_bt", "ready", "capture", "captured", "detect",
            "route", "announce", "sleep", "interrupted", "failed", "finally",
            "finally_raise"}

\* KeyboardInterrupt: inside the try it goes to the handler of line 234;
\* before the try, or in the finally block, it ends the process; in a
\* handler it runs the finally block and then ends the process.  Neither
\* handler nor the finally block reads the locals of the iteration, slept,
\* the clock or the scratch file: the model follows them, and the log of
\* the iteration, no further.
Interrupt ==
    /\ pc \in Running
    /\ (pc = "capture" => count < MaxCycles)
    /\ pc' = CASE pc \in InTry -> "interrupted"
               [] pc \in {"interrupted", "failed"} -> "finally_raise"
               [] OTHER -> "killed"
    /\ intrAt' = IF intrAt = "no" THEN pc ELSE intrAt
    /\ interrupts' = interrupts + 1
    /\ im' = None /\ err' = "None" /\ stderr' = None /\ ts' = 0 /\ fname' = None
    /\ det' = NoDetection /\ text' = None
    /\ shot' = NoShot /\ reply' = NoReply /\ route' = NoRoute
    /\ slept' = 0 /\ clock' = 0 /\ scratch' = <<>>
    /\ steps' = <<>> /\ t0' = 0
    /\ UNCHANGED <<count, env, bt_card, defaultSink, threads, said, shutdown, saved>>

\* Lines 234-236: speak("Stopping capture. Goodbye.", block=True)
Farewell ==
    /\ pc = "interrupted"
    /\ \E raises \in BOOLEAN : threads' = Speak(TRUE, raises, threads)
    /\ farewell' = farewell + 1
    /\ pc' = "finally"
    /\ UNCHANGED <<count, slept, clock, env, bt_card, defaultSink, scratch, locals,
                   shot, reply, route, said, saved, intr, reasserted, cycle>>

\* Lines 237-238: logging.exception("Main loop error")
Failed ==
    /\ pc = "failed"
    /\ pc' = "finally"
    /\ UNCHANGED <<count, slept, clock, env, bt_card, defaultSink, scratch, locals,
                   threads, shot, reply, route, said, shutdown, saved,
                   intr, cycle>>

\* Lines 239-242: the finally block, then main_loop returns, or the
\* interrupt that came in a handler goes on up.
Finally ==
    /\ pc \in {"finally", "finally_raise"}
    /\ IF HasCard(bt_card)
       THEN \E srv \in Servers :
               LET r == SetCardProfile(bt_card, A2DP_PROFILE, srv, defaultSink) IN
               /\ defaultSink' = r.default
               /\ reasserted' = reasserted + 1
       ELSE UNCHANGED <<defaultSink, reasserted>>
    /\ pc' = IF pc = "finally" THEN "exited" ELSE "killed"
    /\ UNCHANGED <<count, slept, clock, env, bt_card, scratch, locals, threads,
                   shot, reply, route, said, farewell, saved, intr, cycle>>

MainStep ==
    \/ EnsureDir \/ FindBt \/ Ready \/ Capture \/ CaptureFailed \/ Persist
    \/ Detect \/ Route \/ Announce \/ SleepSlice \/ Farewell \/ Failed \/ Finally

Next == MainStep \/ Interrupt \/ ThreadEnds

Spec == Init /\ [][Next]_vars

\* The program runs on: whatever main_loop can do next, it does.
FairSpec == Spec /\ WF_vars(MainStep)

\* ================================================================ claims
Ended == {"exited", "killed"}

\* C1: every iteration that was started and was not cut short by an
\* interrupt makes exactly one speak call, whichever component failed.
C1_OneAnnouncementPerCycle ==
    (count > 0 /\ interrupts = 0 /\ pc \in {"sleep", "capture", "failed", "finally", "exited"})
        => Len(said) = 1

\* C2: once the loop runs, only an interrupt takes main_loop out of it: an
\* exception of a step is caught inside the loop and the next iteration
\* follows.
C2_OnlyInterruptEndsLoop ==
    (count > 0 /\ pc \notin InTry) => interrupts > 0

\* C3: an interrupt that comes in the sleep (and is the only one) stops the
\* iterations at once, is answered by exactly one blocking speak call, and
\* main_loop returns.
C3_InterruptWhileSleeping ==
    /\ [](intrAt = "sleep" => pc \notin InTry)
    /\ [][intrAt = "sleep" => count' = count /\ said' = said /\ frames' = frames]_vars
    /\ [](intrAt = "sleep" /\ interrupts = 1 =>
            /\ pc # "killed"
            /\ farewell = (IF pc = "interrupted" THEN 0 ELSE 1))
    /\ (intrAt = "sleep" ~> pc \in Ended)

C3_Witness ==
    intrAt = "sleep" /\ interrupts = 1 /\ pc = "exited" /\ farewell = 1 /\ count = 2

\* The detection of the iteration has no result.
NoResult ==
    \/ ~gemini_client
    \/ reply.raises
    \/ JsonLoads(StripDecoration(reply.text)).kind = "error"

\* C4: without a client, with a call that raises, or with a reply that is
\* not JSON once the decoration is stripped, call_gemini_for_image returns
\* None and the iteration announces "Detection unavailable.".
C4_NoResultIsAnnounced ==
    /\ [][(pc = "detect" /\ pc' \notin {"detect", "interrupted"}) => pc' = "route"]_vars
    /\ []((pc = "route" /\ NoResult) => (det = NoDetection /\ text = Unavailable))
    /\ [][(pc = "route" /\ pc' = "announce") => text' = text]_vars
    /\ [][(pc = "announce" /\ pc' \notin {"announce", "interrupted"}) =>
             (pc' = AfterSlice(0) /\ said' = <<<<text, FALSE>>>>)]_vars

C4_Witness ==
    /\ pc = "route" /\ gemini_client /\ ~reply.raises /\ reply.body = CutBody
    /\ reply.deco = "fence_json"
    /\ det = NoDetection /\ text = Unavailable

\* The shape the prompt asks for.
WellShaped(d) ==
    /\ d.kind = "dict"
    /\ DOMAIN d.d = {"currency", "denomination", "confidence"}
    /\ d.d["confidence"] \in {"high", "medium", "low"}
    /\ d.d["denomination"] \in NumLits

\* C5 as claimed: a JSON value that is not an object of exactly the three
\* keys, with a confidence of high, medium or low, is announced as
\* "Detection unavailable.".
C5_AllOrNothing ==
    (pc \in {"route", "announce"} /\ ~WellShaped(det)) => text = Unavailable

\* C5 as amended: every JSON object is announced as a detection, each
\* missing key by its default; what is not a JSON object is announced as
\* "Detection unavailable.".
C5_ObjectsAreAnnounced ==
    pc \in {"route", "announce"} =>
        IF det.kind = "dict"
        THEN /\ Len(text) = 6 /\ text[1] = "Detected" /\ text[4] = "with"
             /\ text[6] = "confidence."
             /\ text[2] = (IF "denomination" \in DOMAIN det.d
                           THEN det.d["denomination"] ELSE "unknown")
             /\ text[3] = (IF "currency" \in DOMAIN det.d
                           THEN det.d["currency"] ELSE "unknown")
             /\ text[5] = (IF "confidence" \in DOMAIN det.d
                           THEN det.d["confidence"] ELSE "low")
        ELSE text = Unavailable

C5_Witness ==
    /\ pc = "route" /\ reply.body = PartialBody /\ ~reply.raises /\ gemini_client
    /\ text = <<"Detected", "unknown", "USD", "with", "low", "confidence.">>

\* C6: a JSON object inside a fence, with or without the tag json, or after
\* the tag alone, is parsed to what the object alone is parsed to.
C6_DecorationIsStripped ==
    (/\ pc = "route" /\ gemini_client /\ ~reply.raises
     /\ reply.body \in ObjectBodies /\ reply.deco \in FenceDecorations) =>
        /\ det.kind = "dict"
        /\ det = CallGemini(TRUE, Reply(FALSE, reply.body, "plain"))
        /\ (reply.body = FullBody =>
               det.d = [currency |-> "USD", denomination |-> "20", confidence |-> "high"])

C6_Witness ==
    /\ pc = "route" /\ gemini_client /\ ~reply.raises
    /\ reply.body = FullBody /\ reply.deco = "fence_json"
    /\ det.kind = "dict" /\ det.d["denomination"] = "20" /\ det.d["currency"] = "USD"

\* C7: capture_image returns an image or a tag, never both and never
\* neither, and the tag is decided in this order: no camera program; an
\* exit status other than zero; no scratch file; with the time limit and
\* every other exception as tags of their own.
C7_CaptureTags ==
    pc = "captured" =>
        /\ (im # None) <=> (err = "None")
        /\ ~shot.installed =>
              err = "no_camera" /\ ~shot.spawned /\ scratch = shot.before /\ stderr = None
        /\ shot.installed /\ shot.before # <<>> /\ shot.rmFails => err = "exception"
        /\ (shot.installed /\ ~(shot.before # <<>> /\ shot.rmFails)) =>
              /\ shot.proc = "timeout" => err = "timeout"
              /\ shot.proc = "oserror" => err = "exception"
              /\ (shot.proc = "exit" /\ shot.rc # 0) =>
                    err = "camera_failed" /\ stderr = PyStrip(shot.stderr, WS)
              /\ (shot.proc = "exit" /\ shot.rc = 0 /\ ~shot.wrote) => err = "file_missing"
              /\ (shot.proc = "exit" /\ shot.rc = 0 /\ shot.wrote /\ ~shot.decodes) =>
                    err = "exception"
              /\ (shot.proc = "exit" /\ shot.rc = 0 /\ shot.wrote /\ shot.decodes) =>
                    err = "None" /\ im = Digits(count)

C7_Witness ==
    /\ pc = "captured" /\ shot.proc = "exit" /\ shot.rc = 1 /\ ~shot.wrote
    /\ err = "camera_failed" /\ stderr = <<"E">> /\ im = None

\* C8: a second call of set_card_profile, made at once against the same
\* server, returns what the first returned and leaves the default sink the
\* first left.
C8_EnsureProfileIdempotent ==
    (pc = "announce" /\ route.calls = 1) =>
        LET again == SetCardProfile(bt_card, A2DP_PROFILE, route.srv, defaultSink)
        IN  again.ok = route.ok /\ again.default = defaultSink

C8_Witness ==
    /\ pc = "announce" /\ route.calls = 1 /\ route.ok
    /\ route.before = AlsaSink /\ defaultSink = BtSinkA1

\* The lines of the sink listing that contain the card's name.
CardSinks ==
    IF route.srv.sinks = NoOutput THEN {}
    ELSE {i \in 1..Len(route.srv.sinks) : Mentions(route.srv.sinks[i], bt_card)}

DigitRank(c) ==
    IF \E i \in 1..Len(DigitChars) : DigitChars[i] = c
    THEN CHOOSE i \in 1..Len(DigitChars) : DigitChars[i] = c
    ELSE 0

\* a < b as strings, for names of one length
NameLess(a, b) ==
    \E i \in 1..Len(a) :
        /\ \A j \in 1..(i - 1) : a[j] = b[j]
        /\ a[i] # b[i]
        /\ DigitRank(a[i]) < DigitRank(b[i])

\* C10: the stamps of successive iterations never go back, no file of the
\* run is written twice, and the files written are named apart and in the
\* order of their stamps, at least INTERVAL seconds from one to the next.
C10_FramesNamedApart ==
    /\ ~clobbered
    /\ \A i, j \in 1..Len(stamps) : i < j => stamps[i] <= stamps[j]
    /\ \A i, j \in 1..Len(frames) :
          i < j =>
             /\ frames[i][1] + INTERVAL <= frames[j][1]
             /\ frames[i][2] # frames[j][2]
             /\ (Len(frames[i][2]) = Len(frames[j][2]) => NameLess(frames[i][2], frames[j][2]))

C10_Witness ==
    /\ Len(frames) = 2
    /\ frames[1] = <<1000, FileName(1000)>>
    /\ frames[2] = <<1005, FileName(1005)>>

\* C11: the speak calls of an iteration are not blocking and the loop
\* neither waits for a speech thread nor ends one: with utterances still
\* running, even if they never end, the loop goes on through the sleep to
\* the top of the next iteration; the blocking call is made outside the
\* iterations only.
C11_SpeechNeverHoldsLoop ==
    /\ [](\A i \in 1..Len(said) : ~said[i][2])
    /\ [][farewell' # farewell => (pc = "interrupted" /\ pc' = "finally")]_vars
    /\ [][pc' # pc => /\ (threads = "one" => threads' # "none")
                      /\ (threads = "many" => threads' = "many")]_vars
    /\ ((pc = "announce" /\ threads # "none") ~> (pc = "capture" \/ interrupts > 0))

C11_Witness ==
    /\ pc = "capture" /\ count = 1 /\ interrupts = 0
    /\ slept = INTERVAL * TicksPerSecond /\ threads = "many"
    /\ Len(said) = 1 /\ ~said[1][2]

\* C12: whatever im.save does, the iteration goes on to the detection:
\* after the call of im.save the loop is at call_gemini_for_image.
C12_SaveErrorGoesOn ==
    (steps # <<>> /\ steps[Len(steps)] = "persist") => pc = "detect"

\* C13: main_loop never returns without the final blocking speak call of
\* the shutdown, whether an interrupt or an internal error took it out of
\* the loop, and the route is re-asserted after that call (when there is a
\* Bluetooth card).
C13_ShutdownAnnounces ==
    pc = "exited" =>
        /\ farewell = 1
        /\ reasserted = (IF bt_card # None THEN 1 ELSE 0)

\* C14: one interrupt, wherever main_loop is when it comes, from the
\* creation of the directory on through every statement of an iteration,
\* never ends the process abruptly: it is answered by the shutdown.
C14_InterruptAnywhereShutsDown ==
    (interrupts = 1 /\ intrAt \in {"ensure_dir", "find_bt", "ready"} \cup InTry) =>
        pc \in {"interrupted", "finally", "exited"}

\* C15: an iteration whose capture failed writes no file, calls neither
\* call_gemini_for_image nor set_card_profile, makes one speak call that is
\* not blocking, with the failure tag, and goes to the sleep.
C15_FailedCaptureSkipsWork ==
    /\ []((pc = "captured" /\ im = None) =>
            (err # "None" /\ reply = NoReply /\ route = NoRoute /\ steps = <<"capture">>))
    /\ [][(pc = "captured" /\ im = None /\ pc' \notin {"captured", "interrupted"}) =>
            /\ pc' = "sleep" /\ slept' = 0
            /\ frames' = frames /\ reply' = NoReply /\ route' = NoRoute
            /\ defaultSink' = defaultSink
            /\ said' = <<<<<<"Capture failed:", err>>, FALSE>>>>
            /\ steps' = <<"capture", "announce">>]_vars

C15_Witness ==
    /\ pc = "sleep" /\ slept = 0 /\ steps = <<"capture", "announce">>
    /\ said = <<<<<<"Capture failed:", "timeout">>, FALSE>>>>
    /\ frames = <<>> /\ bt_card # None /\ gemini_client /\ route = NoRoute

\* The calls of set_card_profile in the iteration so far.
RouteCalls == Cardinality({i \in 1..Len(steps) : steps[i] = "route"})

\* C16 as claimed: with a Bluetooth card, every iteration that has come to
\* its sleep has called set_card_profile once.
C16_RouteEveryCycle ==
    (pc = "sleep" /\ bt_card # None) => RouteCalls = 1

\* C16 as amended: with a Bluetooth card, an iteration that has come to its
\* sleep has called set_card_profile once, between the detection and the
\* speak call, if its capture gave an image, and not at all if the capture
\* failed; without a card it is never called.
C16_RouteWhenCaptured ==
    pc = "sleep" =>
        LET work == IF steps[Len(steps)] = "sleep"
                    THEN SubSeq(steps, 1, Len(steps) - 1) ELSE steps
        IN  \/ /\ work = <<"capture", "announce">>
               /\ RouteCalls = 0
            \/ /\ bt_card # None
               /\ work = <<"capture", "persist", "detect", "route", "announce">>
               /\ RouteCalls = 1
            \/ /\ bt_card = None
               /\ work = <<"capture", "persist", "detect", "announce">>
               /\ RouteCalls = 0

C16_Witness ==
    /\ pc = "sleep" /\ count = 2 /\ bt_card # None /\ RouteCalls = 1
    /\ Len(frames) = 2 /\ defaultSink = BtSinkA1

\* C17: when the next capture is about to start, the time since the
\* iteration began is INTERVAL, give or take one slice of the sleep,
\* however long the capture took (it always takes less than INTERVAL here).
C17_PeriodIsInterval ==
    (pc = "capture" /\ count > 0 /\ interrupts = 0) =>
        /\ clock - t0 >= INTERVAL * TicksPerSecond - 1
        /\ clock - t0 <= INTERVAL * TicksPerSecond + 1

\* The orders in which an iteration makes its calls: with a card, without
\* one, and after a failed capture.
StepOrders ==
    {<<"capture", "persist", "detect", "route", "announce", "sleep">>,
     <<"capture", "persist", "detect", "announce", "sleep">>,
     <<"capture", "announce", "sleep">>}

IsPrefix(a, b) == Len(a) <= Len(b) /\ SubSeq(b, 1, Len(a)) = a

\* C18: the calls of an iteration are made in one fixed order, each at most
\* once, and the next iteration begins only when the sleep has run its
\* INTERVAL.
C18_FixedOrderNoOverlap ==
    /\ [](\E o \in StepOrders : IsPrefix(steps, o))
    /\ []((bt_card # None /\ \E i \in 1..Len(steps) : steps[i] = "persist") =>
             IsPrefix(steps, <<"capture", "persist", "detect", "route", "announce", "sleep">>))
    /\ [][count' # count =>
             /\ count' = count + 1 /\ steps' = <<"capture">>
             /\ (count > 0 =>
                   /\ slept = INTERVAL * TicksPerSecond
                   /\ steps[Len(steps)] = "sleep")]_vars

C18_Witness ==
    /\ pc = "captured" /\ count = 2 /\ steps = <<"capture">>
    /\ slept = INTERVAL * TicksPerSecond /\ Len(frames) = 1 /\ bt_card # None

\* C19: an image that capture_image returns was read from a scratch file
\* written by the process of that same call; a scratch file of an earlier
\* call is gone before the process runs, so that a process that exits with
\* status zero and writes nothing gives file_missing and no image.
C19_NoStaleImage ==
    pc = "captured" =>
        /\ im # None =>
              /\ shot.spawned /\ shot.wrote
              /\ im = Digits(count) /\ scratch = Digits(count)
              /\ im # shot.before
        /\ shot.spawned => scratch \in {<<>>, Digits(count)}
        /\ (shot.spawned /\ shot.proc = "exit" /\ shot.rc = 0 /\ ~shot.wrote) =>
              (im = None /\ err = "file_missing" /\ scratch = <<>>)

C19_Witness ==
    /\ pc = "captured" /\ count = 2 /\ shot.before = Digits(1)
    /\ shot.spawned /\ shot.proc = "exit" /\ shot.rc = 0 /\ ~shot.wrote
    /\ im = None /\ err = "file_missing" /\ scratch = <<>>

\* C20: never are two threads inside tts_engine.runAndWait at once.
C20_EngineSerialized ==
    threads \in {"none", "one"}
====
